---- MODULE Spec2Model ----
(***************************************************************************)
(* Japanese-N4 study API (src/index.js, src/new.js).                       *)
(*                                                                         *)
(* The write path calls the text generator, strips code fences, parses     *)
(* the JSON and inserts GrammarPoint -> Examples -> Vocabulary inside one  *)
(* mssql transaction.  The read path runs one joined SELECT and groups    *)
(* the flat rows back into the nested document.                           *)
(*                                                                         *)
(* The relational store and the mssql driver are external: the store is   *)
(* modelled as tables of rows, each row tagged with the transaction that  *)
(* wrote it and a committed flag; a statement reads committed rows only   *)
(* and identity values are never reused.  sql.connect() hands every       *)
(* request of one server process the same global connection pool.         *)
(***************************************************************************)
EXTENDS Integers, Sequences, FiniteSets, TLC

(* ---------- bounds of the model ---------- *)
\* largest number of examples in a generated document
MaxExamples == 2
\* largest number of vocab entries under one example
MaxVocab == 2
\* largest identifier of a pre-existing root / child / grandchild row (read model)
MaxRootId == 2
MaxChildId == 2
MaxLeafId == 2
\* largest identifier of a pre-existing question batch (read model)
MaxBatchId == 2
\* longest generator text, in tokens (sanitizer model)
MaxLen == 6
\* most questions in a generated question set, most options of a question
MaxQuestions == 2
MaxOptions == 2
\* longest generator text, in tokens, where the question path decodes it
MaxTextLen == 3
\* most GrammarPoints and KanjiInfo rows in the store the sampling reads
MaxGrammarRows == 6
MaxKanjiRows == 11

(* ---------- requests ---------- *)
\* POST /api/gemini requests: w1 runs beside a GET request, w2 and w3 run
\* beside each other
SoloWriters == {"w1"}
PairWriters == {"w2", "w3"}
\* a POST /api/gemini request whose generator document may lack fields
LooseWriters == {"w4"}
Writers == SoloWriters \cup PairWriters \cup LooseWriters
\* POST /api/gemini/questions requests (src/new.js server): q1 gets all kinds
\* of question sets, q2 samples from stores of several sizes
QuestionWriters == {"q1", "q2"}
\* a GET /api/grammar/:id or GET /api/grammar request of the same server
Readers == {"r1"}
\* one GET /api/exam/today request (src/new.js server)
ExamReaders == {"x1"}
Requests == Writers \cup Readers \cup ExamReaders \cup QuestionWriters

\* req.body of each write request
body == [w \in Writers |->
           [concept |-> IF w = "w2" THEN "nagara" ELSE IF w = "w3" THEN "sou" ELSE "tte"]]

(* ---------- values ---------- *)
\* SQL NULL / JS null for identifier columns, and for text columns
NULL == -1
NullText == <<"null", "", 0, 0>>
\* JS undefined for local variables holding identifiers
Undefined == 0

\* a text value: opaque, distinct per (concept, field, position)
Txt(c, f, i, j) == <<c, f, i, j>>

\* a faulty variant of Truthy: the test left out, every value passes
AlwaysTruthy(v) == TRUE
\* JS truthiness of an identifier column: null and 0 are falsy
Truthy(v) == v # NULL /\ v # 0

(* ---------- documents returned by the generator ---------- *)
\* a document shape: the number of vocab entries of each example, in order
Shapes == UNION {[1..n -> 0..MaxVocab] : n \in 0..MaxExamples}
\* the shapes used where two writes interleave: one example and one vocab less
SmallShapes == {s \in Shapes : /\ Len(s) < MaxExamples
                               /\ \A n \in 1..Len(s) : s[n] < MaxVocab}
ShapesOf(w) == IF w \in SoloWriters THEN Shapes ELSE SmallShapes

\* the GrammarDocument the prompt asks for, for concept c and a shape
GrammarDocument(c, shape) ==
  [concept  |-> Txt(c, "concept", 0, 0),
   meaning  |-> Txt(c, "meaning", 0, 0),
   details  |-> Txt(c, "details", 0, 0),
   examples |-> [i \in 1..Len(shape) |->
      [japanese |-> Txt(c, "japanese", i, 0),
       romaji   |-> Txt(c, "romaji", i, 0),
       english  |-> Txt(c, "english", i, 0),
       vocab    |-> [j \in 1..shape[i] |->
          [word    |-> Txt(c, "word", i, j),
           romaji  |-> Txt(c, "vromaji", i, j),
           meaning |-> Txt(c, "vmeaning", i, j)]]]]]

NoDoc == [concept |-> NullText, meaning |-> NullText, details |-> NullText,
          examples |-> <<>>]

\* a value a for-of loop cannot iterate (undefined, an object), for a list of
\* objects and for a list of texts
NotIterable == <<[undefined |-> TRUE]>>
NoOptions == <<"undefined">>

\* what a document that parses as JSON may lack: nothing, its concept, its
\* examples, the vocab of its first example, the word of its first vocab entry.
\* An absent text reaches the store as NULL.
Defects == {"none", "concept", "examples", "vocab", "word"}
LooseDocument(c, shape, defect) ==
  LET doc == GrammarDocument(c, shape)
  IN  CASE defect = "concept" -> [doc EXCEPT !.concept = NullText]
        [] defect = "examples" -> [doc EXCEPT !.examples = NotIterable]
        [] defect = "vocab" /\ Len(shape) >= 1 ->
             [doc EXCEPT !.examples[1].vocab = NotIterable]
        [] defect = "word" /\ Len(shape) >= 1 /\ shape[1] >= 1 ->
             [doc EXCEPT !.examples[1].vocab[1].word = NullText]
        [] OTHER -> doc

\* the documents JSON.parse may give each write request
DocsOf(w) ==
  IF w \in LooseWriters
  THEN {LooseDocument(body[w].concept, shape, defect) :
          shape \in Shapes, defect \in Defects}
  ELSE {GrammarDocument(body[w].concept, shape) : shape \in ShapesOf(w)}

(* ---------- the relational store ---------- *)
\* rows as the tables hold them; xid is the writing transaction, committed
\* tells whether that transaction's commit (or an autocommit) made it visible
GrammarRow(id, c, m, d, x, cm) ==
  [GrammarId |-> id, Concept |-> c, Meaning |-> m, Details |-> d,
   xid |-> x, committed |-> cm]
ExampleRow(id, gid, jp, ro, en, x, cm) ==
  [ExampleId |-> id, GrammarId |-> gid, Japanese |-> jp, Romaji |-> ro,
   English |-> en, xid |-> x, committed |-> cm]
VocabRow(id, eid, w, ro, m, x, cm) ==
  [VocabId |-> id, ExampleId |-> eid, Word |-> w, Romaji |-> ro,
   Meaning |-> m, xid |-> x, committed |-> cm]

EmptyDb == [GrammarPoints |-> {}, Examples |-> {}, Vocabulary |-> {},
            questions |-> {}, question_options |-> {}, QuestionBatch |-> {},
            KanjiInfo |-> {}]

\* a faulty variant of Visible: dirty reads (READ UNCOMMITTED)
ReadUncommitted(row) == TRUE
\* a SELECT outside the writing transaction sees committed rows only
Visible(row) == row.committed

\* the store ends the transactions X by discarding what they wrote (ROLLBACK, or the
\* session of an open transaction going away)
Discard(d, X) ==
  [t \in DOMAIN d |-> {row \in d[t] : row.committed \/ row.xid \notin X}]

\* COMMIT of transaction x: all its rows become visible in one step
CommitRows(d, x) ==
  [t \in DOMAIN d |->
     {IF row.xid = x THEN [row EXCEPT !.committed = TRUE] ELSE row : row \in d[t]}]

(* ---------- the joined SELECT of the read path ---------- *)
JoinedRow(g, e, v) ==
  [GrammarId |-> g.GrammarId, Concept |-> g.Concept, Meaning |-> g.Meaning,
   Details |-> g.Details,
   ExampleId |-> e.ExampleId, Japanese |-> e.Japanese, Romaji |-> e.Romaji,
   English |-> e.English,
   VocabId |-> v.VocabId, Word |-> v.Word, VocabRomaji |-> v.Romaji,
   VocabMeaning |-> v.Meaning]

\* the all-NULL right side a LEFT JOIN produces when nothing matches
NullExample == [ExampleId |-> NULL, Japanese |-> NullText, Romaji |-> NullText,
                English |-> NullText]
NullVocab == [VocabId |-> NULL, Word |-> NullText, Romaji |-> NullText,
              Meaning |-> NullText]

\* FROM GrammarPoints g LEFT JOIN Examples e ON g.GrammarId = e.GrammarId
\*                      LEFT JOIN Vocabulary v ON e.ExampleId = v.ExampleId
\* restricted to the root rows G
LeftJoin(d, G) ==
  UNION {
    LET E == {e \in d.Examples : Visible(e) /\ e.GrammarId = g.GrammarId}
    IN  IF E = {} THEN {JoinedRow(g, NullExample, NullVocab)}
        ELSE UNION {
          LET V == {v \in d.Vocabulary : Visible(v) /\ v.ExampleId = e.ExampleId}
          IN  IF V = {} THEN {JoinedRow(g, e, NullVocab)}
              ELSE {JoinedRow(g, e, v) : v \in V}
          : e \in E}
    : g \in G}

\* ORDER BY: the rows of S as a sequence, ascending in the strict order Before
\* (NULL sorts first, as SQL Server does)
OrderBy(S, Before(_, _)) ==
  [i \in 1..Cardinality(S) |->
     CHOOSE r \in S : Cardinality({o \in S : Before(o, r)}) = i - 1]

\* ORDER BY e.ExampleId, v.VocabId
ByExampleVocab(a, b) ==
  \/ a.ExampleId < b.ExampleId
  \/ a.ExampleId = b.ExampleId /\ a.VocabId < b.VocabId

\* a faulty variant of the ordering below: ORDER BY g.GrammarId DESC
ByGrammarDescExampleVocab(a, b) ==
  \/ a.GrammarId > b.GrammarId
  \/ a.GrammarId = b.GrammarId /\ ByExampleVocab(a, b)
\* ORDER BY g.GrammarId, e.ExampleId, v.VocabId
ByGrammarExampleVocab(a, b) ==
  \/ a.GrammarId < b.GrammarId
  \/ a.GrammarId = b.GrammarId /\ ByExampleVocab(a, b)

\* the SELECT of GET /api/grammar/:id
SelectGrammarById(d, id) ==
  OrderBy(LeftJoin(d, {g \in d.GrammarPoints : Visible(g) /\ g.GrammarId = id}),
          ByExampleVocab)

\* the SELECT of GET /api/grammar
SelectAllGrammar(d) ==
  OrderBy(LeftJoin(d, {g \in d.GrammarPoints : Visible(g)}), ByGrammarExampleVocab)

(* ---------- Row-to-Tree Reconstructor ---------- *)
\* a faulty variant of ExampleSeen: no lookup, a child node per row
NeverSeen(exampleMap, row) == FALSE
\* exampleMap[row.ExampleId] is set: the child id was met before
ExampleSeen(exampleMap, row) == row.ExampleId \in DOMAIN exampleMap

\* a faulty variant of VocabEntry: the example's columns in the vocab entry
VocabFromExampleColumns(row) ==
  [word |-> row.Word, romaji |-> row.Romaji, meaning |-> row.VocabMeaning]
\* the leaf entry pushed for a row
VocabEntry(row) ==
  [word |-> row.Word, romaji |-> row.VocabRomaji, meaning |-> row.VocabMeaning]

\* one pass of the loop of GET /api/grammar/:id over rows[k..]; acc holds
\* grammar.examples and exampleMap (child id -> position of its node, the map
\* and the array sharing the node object)
RECURSIVE GroupOne(_, _, _)
GroupOne(rows, k, acc) ==
  IF k > Len(rows) THEN acc
  ELSE LET row == rows[k]
           a1 == IF Truthy(row.ExampleId) /\ ~ExampleSeen(acc.exampleMap, row)
                 THEN [examples |-> Append(acc.examples,
                          [japanese |-> row.Japanese, romaji |-> row.Romaji,
                           english |-> row.English, vocab |-> <<>>]),
                       exampleMap |->
                          [id \in DOMAIN acc.exampleMap \cup {row.ExampleId} |->
                             IF id = row.ExampleId THEN Len(acc.examples) + 1
                             ELSE acc.exampleMap[id]]]
                 ELSE acc
           a2 == IF Truthy(row.ExampleId) /\ Truthy(row.VocabId)
                 THEN [a1 EXCEPT !.examples[a1.exampleMap[row.ExampleId]].vocab =
                                    Append(@, VocabEntry(row))]
                 ELSE a1
       IN  GroupOne(rows, k + 1, a2)

\* rows -> nested JSON of GET /api/grammar/:id (rows is not empty)
ReconstructOne(rows) ==
  [concept  |-> rows[1].Concept,
   meaning  |-> rows[1].Meaning,
   details  |-> rows[1].Details,
   examples |-> GroupOne(rows, 1, [examples |-> <<>>, exampleMap |-> <<>>]).examples]

\* grammar.examples.find(ex => ex.id === id): position of the first match, 0 if none
Find(examples, id) ==
  IF \E n \in 1..Len(examples) : examples[n].id = id
  THEN CHOOSE n \in 1..Len(examples) :
         /\ examples[n].id = id
         /\ \A m \in 1..(n - 1) : examples[m].id # id
  ELSE 0

\* one pass of the loop of GET /api/grammar over rows[k..]; grammarMap maps a
\* root id to its node
RECURSIVE GroupAll(_, _, _)
GroupAll(rows, k, grammarMap) ==
  IF k > Len(rows) THEN grammarMap
  ELSE LET row == rows[k]
           m1 == IF row.GrammarId \in DOMAIN grammarMap THEN grammarMap
                 ELSE [id \in DOMAIN grammarMap \cup {row.GrammarId} |->
                         IF id = row.GrammarId
                         THEN [id |-> row.GrammarId, concept |-> row.Concept,
                               meaning |-> row.Meaning, details |-> row.Details,
                               examples |-> <<>>]
                         ELSE grammarMap[id]]
           grammar == m1[row.GrammarId]
           exs1 == IF Truthy(row.ExampleId) /\ Find(grammar.examples, row.ExampleId) = 0
                   THEN Append(grammar.examples,
                          [id |-> row.ExampleId, japanese |-> row.Japanese,
                           romaji |-> row.Romaji, english |-> row.English,
                           vocab |-> <<>>])
                   ELSE grammar.examples
           exs2 == IF Truthy(row.ExampleId) /\ Truthy(row.VocabId)
                   THEN [exs1 EXCEPT ![Find(exs1, row.ExampleId)].vocab =
                                       Append(@, VocabEntry(row))]
                   ELSE exs1
       IN  GroupAll(rows, k + 1, [m1 EXCEPT ![row.GrammarId].examples = exs2])

\* Object.values of an object whose keys are integer ids: the values in
\* ascending key order
ObjectValues(map) ==
  [i \in 1..Cardinality(DOMAIN map) |->
     map[CHOOSE key \in DOMAIN map :
           Cardinality({o \in DOMAIN map : o < key}) = i - 1]]

\* rows -> array of GET /api/grammar
ReconstructAll(rows) == ObjectValues(GroupAll(rows, 1, <<>>))

(* ---------- Response Sanitizer ---------- *)
\* generator text as a sequence of tokens: a code fence (three backquotes),
\* the tag in either case, whitespace, other text
Fence == "fence"
Tokens == {Fence, "json", "JSON", " ", "x"}
IsSpace(tok) == tok = " "

\* the i flag: letters compare without case
Lower(tok) == IF tok = "JSON" THEN "json" ELSE tok

\* String.prototype.trim
Trim(text) ==
  LET solid == {n \in 1..Len(text) : ~IsSpace(text[n])}
  IN  IF solid = {} THEN <<>>
      ELSE SubSeq(text, CHOOSE a \in solid : \A n \in solid : a <= n,
                        CHOOSE b \in solid : \A n \in solid : n <= b)

\* greedy \s* at the start of text: what is left after it
SkipSpace(text) ==
  LET solid == {n \in 1..Len(text) : ~IsSpace(text[n])}
  IN  IF solid = {} THEN <<>>
      ELSE SubSeq(text, CHOOSE a \in solid : \A n \in solid : a <= n, Len(text))

\* text.match(/FENCEjson\s*([\s\S]*?)FENCE/i) when tagged, and
\* text.match(/FENCE([\s\S]*?)FENCE/i) otherwise: the leftmost opening fence that
\* a later fence closes, the lazy group ending at the first such fence
Match(text, tagged) ==
  LET skip == IF tagged THEN 2 ELSE 1
      opens == {p \in 1..Len(text) :
                  /\ text[p] = Fence
                  /\ tagged => p + 1 <= Len(text) /\ Lower(text[p + 1]) = "json"
                  /\ \E q \in (p + skip)..Len(text) : text[q] = Fence}
  IN  IF opens = {} THEN [found |-> FALSE, group |-> <<>>]
      ELSE LET p == CHOOSE a \in opens : \A n \in opens : a <= n
               closes == {q \in (p + skip)..Len(text) : text[q] = Fence}
               q == CHOOSE a \in closes : \A n \in closes : a <= n
               inner == SubSeq(text, p + skip, q - 1)
           IN  [found |-> TRUE,
                group |-> IF tagged THEN SkipSpace(inner) ELSE inner]

\* jsonMatch = tagged match || untagged match
JsonMatch(text) ==
  IF Match(text, TRUE).found THEN Match(text, TRUE) ELSE Match(text, FALSE)

\* src/index.js: if (jsonMatch) jsonMatch[1].trim() else geminiText.trim()
SanitizeIndex(text) ==
  IF JsonMatch(text).found THEN Trim(JsonMatch(text).group) ELSE Trim(text)

\* src/new.js: if (jsonMatch) geminiText = jsonMatch[1].trim(), and no else
SanitizeNew(text) ==
  IF JsonMatch(text).found THEN Trim(JsonMatch(text).group) ELSE text

(* ---------- state ---------- *)
VARIABLES
  db,          \* the tables of the store
  identity,    \* last IDENTITY value handed out, per table
  globalPool,  \* mssql's global connection pool of each server process
  poolOpen,    \* the pools that are connected
  closedBy,    \* which request closed a pool
  pc,          \* each request's position in its handler
  pool,        \* each handler's local pool
  tx,          \* each handler's local tx and the state of that transaction
  geminiData,  \* the parsed document
  grammarId,   \* root id returned by the first insert
  exampleId,   \* id returned by the latest example insert
  i, j,        \* positions of the two for-of loops
  err,         \* the error caught by the handler
  resp,        \* the responses sent for each request
  rejected,    \* the handler's promise rejected (its catch block threw)
  req,         \* parameters of a read request
  recordset,   \* result.recordset of a read request
  disturbed,   \* requests whose store operation failed on a pool another request closed
  overlap,     \* the writes that had uncommitted rows when a read's SELECT ran
  geminiText,  \* generator text given to the sanitizer
  sanitized,   \* what each route's fence-stripping made of it
  grammarList, \* question path: the concepts of the sampled grammar points
  kanjiList,   \* question path: the sampled kanji
  batchId,     \* question path: id returned by the batch insert
  questions,   \* question path: the parsed question set
  questionId   \* question path: id returned by the latest question insert

vars == <<db, identity, globalPool, poolOpen, closedBy, pc, pool, tx, geminiData,
          grammarId, exampleId, i, j, err, resp, rejected, req, recordset,
          disturbed, overlap, geminiText, sanitized, grammarList, kanjiList,
          batchId, questions, questionId>>

storeVars == <<db, identity>>
poolVars == <<globalPool, poolOpen, closedBy>>
writerVars == <<geminiData, grammarId, exampleId, i, j>>
readerVars == <<req, recordset, overlap>>
sanVars == <<geminiText, sanitized>>
questionVars == <<grammarList, kanjiList, batchId, questions, questionId>>

Servers == {"index", "new"}
\* the server process that handles a request
Server(r) == IF r \in ExamReaders \cup QuestionWriters THEN "new" ELSE "index"

NoPool == "none"
NoReq == [mode |-> "none", id |-> Undefined]

(* ---------- mssql: global pool ---------- *)
\* sql.connect(config): the process-wide pool, created by the first caller
ConnectedPool(r) ==
  IF globalPool[Server(r)] = NoPool THEN r ELSE globalPool[Server(r)]

\* the transactions that hold a connection of pool p
OpenTxOf(p) == {w \in Requests : pool[w] = p /\ tx[w] = "begun"}

\* closing pool p drops its connections: the store ends the transactions that
\* were open on them, and the driver's transaction objects are dead
ClosePool(p, r) ==
  /\ poolOpen' = poolOpen \ {p}
  /\ globalPool' = [s \in Servers |->
                      IF globalPool[s] = p THEN NoPool ELSE globalPool[s]]
  /\ closedBy' = IF p \in poolOpen THEN [closedBy EXCEPT ![p] = r] ELSE closedBy
  /\ tx' = [w \in Requests |-> IF w \in OpenTxOf(p) THEN "aborted" ELSE tx[w]]
  /\ db' = Discard(db, OpenTxOf(p))

\* r's store operation found its pool closed by somebody else
Disturb(r) ==
  IF pool[r] # NoPool /\ pool[r] \notin poolOpen /\ closedBy[pool[r]] # r
  THEN disturbed \cup {r} ELSE disturbed

(* ---------- POST /api/gemini ---------- *)
\* the handler throws: control goes to the catch block
Throw(w, message) ==
  /\ pc' = [pc EXCEPT ![w] = "catch"]
  /\ err' = [err EXCEPT ![w] = message]

\* axios.post, the text check, fence stripping and JSON.parse
CallGemini(w) ==
  /\ pc[w] = "gemini"
  /\ \/ /\ \E doc \in DocsOf(w) : geminiData' = [geminiData EXCEPT ![w] = doc]
        /\ pc' = [pc EXCEPT ![w] = "connect"]
        /\ err' = err
     \/ /\ \E message \in {"Request failed", "Invalid Gemini response format",
                           "Gemini response is not valid JSON"} :
             Throw(w, message)
        /\ geminiData' = geminiData
  /\ UNCHANGED <<storeVars, poolVars, pool, tx, grammarId, exampleId, i, j, resp,
                 rejected, readerVars, disturbed, sanVars,
                 questionVars>>

\* pool = await sql.connect(config)
Connect(w) ==
  /\ pc[w] = "connect"
  /\ \/ /\ pool' = [pool EXCEPT ![w] = ConnectedPool(w)]
        /\ poolOpen' = poolOpen \cup {ConnectedPool(w)}
        /\ globalPool' = [globalPool EXCEPT ![Server(w)] = ConnectedPool(w)]
        /\ pc' = [pc EXCEPT ![w] = "begin"]
        /\ err' = err
     \/ /\ globalPool[Server(w)] = NoPool
        /\ Throw(w, "Failed to connect")
        /\ UNCHANGED <<pool, poolOpen, globalPool>>
  /\ UNCHANGED <<storeVars, closedBy, tx, writerVars, resp, rejected, readerVars,
                 disturbed, sanVars,
                 questionVars>>

\* tx = new sql.Transaction(pool); await tx.begin()
Begin(w) ==
  /\ pc[w] = "begin"
  /\ \/ /\ pool[w] \in poolOpen
        /\ tx' = [tx EXCEPT ![w] = "begun"]
        /\ pc' = [pc EXCEPT ![w] = "insertGrammar"]
        /\ UNCHANGED <<err, disturbed>>
     \/ /\ tx' = [tx EXCEPT ![w] = "created"]
        /\ Throw(w, "begin failed")
        /\ disturbed' = Disturb(w)
  /\ UNCHANGED <<storeVars, poolVars, pool, writerVars, resp, rejected, readerVars,
                 sanVars,
                 questionVars>>

\* a faulty variant of RequestScope: new sql.Request(pool), each INSERT commits
AutoCommit == "pool"
\* what the insert requests are bound to: new sql.Request(tx)
RequestScope == "tx"

\* a statement of w's transaction fails: the statement alone (constraint
\* violation, timeout), the connection under it, or because the pool that
\* held the connection has been closed
FailStatement(w, message) ==
  /\ Throw(w, message)
  /\ \/ /\ tx[w] = "begun"
        /\ UNCHANGED <<tx, db, disturbed>>
     \/ /\ tx[w] = "begun"
        /\ tx' = [tx EXCEPT ![w] = "lost"]
        /\ db' = Discard(db, {w})
        /\ disturbed' = disturbed
     \/ /\ tx[w] = "aborted"
        /\ UNCHANGED <<tx, db>>
        /\ disturbed' = Disturb(w)

\* where the loops go after example n and its vocab entries up to m are done;
\* a for-of over what cannot be iterated throws a TypeError
AfterVocab(doc, n, m) ==
  IF doc.examples = NotIterable
  THEN [pc |-> "catch", i |-> n, j |-> m,
        err |-> "geminiData.examples is not iterable"]
  ELSE IF n >= 1 /\ n <= Len(doc.examples) /\ m = 0
            /\ doc.examples[n].vocab = NotIterable
  THEN [pc |-> "catch", i |-> n, j |-> m, err |-> "example.vocab is not iterable"]
  ELSE IF n >= 1 /\ n <= Len(doc.examples) /\ m < Len(doc.examples[n].vocab)
  THEN [pc |-> "insertVocab", i |-> n, j |-> m + 1, err |-> ""]
  ELSE IF n < Len(doc.examples)
  THEN [pc |-> "insertExample", i |-> n + 1, j |-> 0, err |-> ""]
  ELSE [pc |-> "commit", i |-> n, j |-> m, err |-> ""]

Goto(w, at) ==
  /\ pc' = [pc EXCEPT ![w] = at.pc]
  /\ i' = [i EXCEPT ![w] = at.i]
  /\ j' = [j EXCEPT ![w] = at.j]

\* the loop goes on, or its TypeError is thrown to the catch block
GotoOrThrow(w, at) ==
  /\ Goto(w, at)
  /\ err' = IF at.pc = "catch" THEN [err EXCEPT ![w] = at.err] ELSE err

\* INSERT INTO GrammarPoints ... OUTPUT INSERTED.GrammarId
InsertGrammar(w) ==
  /\ pc[w] = "insertGrammar"
  /\ \/ /\ tx[w] = "begun"
        /\ LET id == identity.GrammarPoints + 1
               doc == geminiData[w]
           IN  /\ identity' = [identity EXCEPT !.GrammarPoints = id]
               /\ db' = [db EXCEPT !.GrammarPoints = @ \cup
                           {GrammarRow(id, doc.concept, doc.meaning, doc.details,
                                       w, RequestScope # "tx")}]
               /\ grammarId' = [grammarId EXCEPT ![w] = id]
               /\ GotoOrThrow(w, AfterVocab(doc, 0, 0))
        /\ UNCHANGED <<tx, disturbed>>
     \/ /\ FailStatement(w, "insert GrammarPoints failed")
        /\ UNCHANGED <<identity, grammarId, i, j>>
  /\ UNCHANGED <<poolVars, pool, geminiData, exampleId, resp, rejected, readerVars,
                 sanVars,
                 questionVars>>

\* a faulty variant of ParentGrammarId: the latest identity of the table,
\* whoever inserted it
IdentCurrentGrammar(w) == identity.GrammarPoints
\* the @GrammarId parameter of an example insert: the handler's const grammarId
ParentGrammarId(w) == grammarId[w]

\* INSERT INTO Examples ... OUTPUT INSERTED.ExampleId, for geminiData.examples[i]
InsertExample(w) ==
  /\ pc[w] = "insertExample"
  /\ \/ /\ tx[w] = "begun"
        /\ LET id == identity.Examples + 1
               doc == geminiData[w]
               example == doc.examples[i[w]]
           IN  /\ identity' = [identity EXCEPT !.Examples = id]
               /\ db' = [db EXCEPT !.Examples = @ \cup
                           {ExampleRow(id, ParentGrammarId(w), example.japanese,
                                       example.romaji, example.english,
                                       w, RequestScope # "tx")}]
               /\ exampleId' = [exampleId EXCEPT ![w] = id]
               /\ GotoOrThrow(w, AfterVocab(doc, i[w], 0))
        /\ UNCHANGED <<tx, disturbed>>
     \/ /\ FailStatement(w, "insert Examples failed")
        /\ UNCHANGED <<identity, exampleId, i, j>>
  /\ UNCHANGED <<poolVars, pool, geminiData, grammarId, resp, rejected, readerVars,
                 sanVars,
                 questionVars>>

\* a faulty variant of ParentExampleId: the root's id bound to @ExampleId
RootIdAsExampleId(w) == grammarId[w]
\* the @ExampleId parameter of a vocab insert: the const exampleId of the
\* enclosing loop iteration
ParentExampleId(w) == exampleId[w]

\* INSERT INTO Vocabulary ..., for example.vocab[j]
InsertVocab(w) ==
  /\ pc[w] = "insertVocab"
  /\ \/ /\ tx[w] = "begun"
        /\ LET id == identity.Vocabulary + 1
               doc == geminiData[w]
               vocab == doc.examples[i[w]].vocab[j[w]]
           IN  /\ identity' = [identity EXCEPT !.Vocabulary = id]
               /\ db' = [db EXCEPT !.Vocabulary = @ \cup
                           {VocabRow(id, ParentExampleId(w), vocab.word, vocab.romaji,
                                     vocab.meaning, w, RequestScope # "tx")}]
               /\ GotoOrThrow(w, AfterVocab(doc, i[w], j[w]))
        /\ UNCHANGED <<tx, disturbed>>
     \/ /\ FailStatement(w, "insert Vocabulary failed")
        /\ UNCHANGED <<identity, i, j>>
  /\ UNCHANGED <<poolVars, pool, geminiData, grammarId, exampleId, resp, rejected,
                 readerVars, sanVars,
                 questionVars>>

Send(r, response) == resp' = [resp EXCEPT ![r] = Append(@, response)]

\* await tx.commit(); res.json({message, grammarId, geminiData})
Commit(w) ==
  /\ pc[w] = "commit"
  /\ \/ /\ tx[w] = "begun"
        /\ db' = CommitRows(db, w)
        /\ tx' = [tx EXCEPT ![w] = "committed"]
        /\ Send(w, [status |-> 200, grammarId |-> grammarId[w],
                    geminiData |-> geminiData[w]])
        /\ pc' = [pc EXCEPT ![w] = "finally"]
        /\ UNCHANGED <<err, disturbed>>
     \/ /\ FailStatement(w, "commit failed")
        /\ resp' = resp
  /\ UNCHANGED <<identity, poolVars, pool, writerVars, rejected, readerVars, sanVars,
                 questionVars>>

\* catch (err) { if (tx) await tx.rollback(); res.status(500).json({error}) }
\* rollback() rejects on a transaction that is not begun or whose connection is
\* gone, and then the response line is not reached
Catch(w) ==
  /\ pc[w] = "catch"
  /\ \/ /\ tx[w] = "undefined"
        /\ Send(w, [status |-> 500, error |-> err[w]])
        /\ UNCHANGED <<tx, db, rejected, disturbed>>
     \/ /\ tx[w] = "begun"
        /\ db' = Discard(db, {w})
        /\ tx' = [tx EXCEPT ![w] = "rolledback"]
        /\ Send(w, [status |-> 500, error |-> err[w]])
        /\ UNCHANGED <<rejected, disturbed>>
     \/ /\ tx[w] = "begun"
        /\ db' = Discard(db, {w})
        /\ tx' = [tx EXCEPT ![w] = "lost"]
        /\ rejected' = [rejected EXCEPT ![w] = TRUE]
        /\ UNCHANGED <<resp, disturbed>>
     \/ /\ tx[w] \in {"created", "lost", "aborted", "committed"}
        /\ rejected' = [rejected EXCEPT ![w] = TRUE]
        /\ disturbed' = IF tx[w] = "aborted" THEN Disturb(w) ELSE disturbed
        /\ UNCHANGED <<tx, db, resp>>
  /\ pc' = [pc EXCEPT ![w] = "finally"]
  /\ UNCHANGED <<identity, poolVars, pool, writerVars, err, readerVars, sanVars,
                 questionVars>>

\* finally { if (pool) await pool.close() }; a rejection that escaped the
\* handler is left to the framework: express 4 sends nothing, express 5 passes
\* it to its default error handler
Finally(w) ==
  /\ pc[w] = "finally"
  /\ IF pool[w] # NoPool THEN ClosePool(pool[w], w)
     ELSE UNCHANGED <<poolVars, tx, db>>
  /\ \/ resp' = resp
     \/ /\ rejected[w]
        /\ Send(w, [status |-> 500, error |-> "Internal Server Error"])
  /\ pc' = [pc EXCEPT ![w] = "done"]
  /\ UNCHANGED <<identity, pool, writerVars, err, rejected, readerVars, disturbed,
                 sanVars,
                 questionVars>>

(* ---------- GET /api/grammar/:id and GET /api/grammar ---------- *)
ReadIds == 1..MaxRootId
ReadRequests == {[mode |-> "one", id |-> n] : n \in ReadIds}
                  \cup {[mode |-> "all", id |-> Undefined]}

\* a faulty variant of NoGrammarPoints: no rows answered as not-found
EmptyIsNotFound == [status |-> 404, error |-> "Grammar point not found"]
\* GET /api/grammar with no rows: res.json([])
NoGrammarPoints == [status |-> 200, body |-> <<>>]

\* what the handler answers for the rows of its SELECT
Answer(rq, rows) ==
  IF rq.mode = "one"
  THEN IF Len(rows) = 0
       THEN [status |-> 404, error |-> "Grammar point not found"]
       ELSE [status |-> 200, body |-> ReconstructOne(rows)]
  ELSE IF Len(rows) = 0
       THEN NoGrammarPoints
       ELSE [status |-> 200, body |-> ReconstructAll(rows)]

\* const { id } = req.params; let pool = await sql.connect(config)
\* on failure: catch sends 500 and finally runs
RConnect(r) ==
  /\ pc[r] = "connect"
  /\ \E rq \in ReadRequests : req' = [req EXCEPT ![r] = rq]
  /\ \/ /\ pool' = [pool EXCEPT ![r] = ConnectedPool(r)]
        /\ poolOpen' = poolOpen \cup {ConnectedPool(r)}
        /\ globalPool' = [globalPool EXCEPT ![Server(r)] = ConnectedPool(r)]
        /\ pc' = [pc EXCEPT ![r] = "query"]
        /\ UNCHANGED <<err, resp>>
     \/ /\ globalPool[Server(r)] = NoPool
        /\ err' = [err EXCEPT ![r] = "Failed to connect"]
        /\ Send(r, [status |-> 500, error |-> "Failed to connect"])
        /\ pc' = [pc EXCEPT ![r] = "finally"]
        /\ UNCHANGED <<pool, poolOpen, globalPool>>
  /\ UNCHANGED <<storeVars, closedBy, tx, writerVars, rejected, recordset, overlap,
                 disturbed, sanVars,
                 questionVars>>

\* await pool.request().query(SELECT ...), the grouping loop and the response
RQuery(r) ==
  /\ pc[r] = "query"
  /\ \/ /\ pool[r] \in poolOpen
        /\ LET rows == IF req[r].mode = "one"
                       THEN SelectGrammarById(db, req[r].id)
                       ELSE SelectAllGrammar(db)
           IN  /\ recordset' = [recordset EXCEPT ![r] = rows]
               /\ Send(r, Answer(req[r], rows))
        /\ overlap' = [overlap EXCEPT ![r] =
                         {w \in Writers : \E row \in db.GrammarPoints :
                                            row.xid = w /\ ~row.committed}]
        /\ UNCHANGED <<err, disturbed>>
     \/ /\ err' = [err EXCEPT ![r] = "query failed"]
        /\ Send(r, [status |-> 500, error |-> "query failed"])
        /\ disturbed' = Disturb(r)
        /\ UNCHANGED <<recordset, overlap>>
  /\ pc' = [pc EXCEPT ![r] = "finally"]
  /\ UNCHANGED <<storeVars, poolVars, pool, tx, writerVars, rejected, req, sanVars,
                 questionVars>>

\* finally { sql.close() }: closes whatever pool is the global one now
RFinally(r) ==
  /\ pc[r] = "finally"
  /\ IF globalPool[Server(r)] # NoPool THEN ClosePool(globalPool[Server(r)], r)
     ELSE UNCHANGED <<poolVars, tx, db>>
  /\ pc' = [pc EXCEPT ![r] = "done"]
  /\ UNCHANGED <<identity, pool, writerVars, err, resp, rejected, readerVars,
                 disturbed, sanVars,
                 questionVars>>

(* ---------- specification: one server, requests in flight together ---------- *)
InitRequests ==
  /\ globalPool = [s \in Servers |-> NoPool]
  /\ poolOpen = {}
  /\ closedBy = [r \in Requests |-> "none"]
  /\ pool = [r \in Requests |-> NoPool]
  /\ tx = [r \in Requests |-> "undefined"]
  /\ geminiData = [w \in Writers |-> NoDoc]
  /\ grammarId = [w \in Writers |-> Undefined]
  /\ exampleId = [w \in Writers |-> Undefined]
  /\ i = [w \in Writers \cup QuestionWriters |-> 0]
  /\ j = [w \in Writers \cup QuestionWriters |-> 0]
  /\ err = [r \in Requests |-> ""]
  /\ resp = [r \in Requests |-> <<>>]
  /\ rejected = [r \in Requests |-> FALSE]
  /\ req = [r \in Readers \cup ExamReaders |-> NoReq]
  /\ recordset = [r \in Readers \cup ExamReaders |-> <<>>]
  /\ disturbed = {}
  /\ overlap = [r \in Readers \cup ExamReaders |-> {}]
  /\ grammarList = [q \in QuestionWriters |-> <<>>]
  /\ kanjiList = [q \in QuestionWriters |-> <<>>]
  /\ batchId = [q \in QuestionWriters |-> Undefined]
  /\ questions = [q \in QuestionWriters |-> <<>>]
  /\ questionId = [q \in QuestionWriters |-> Undefined]

InitSanitizerIdle ==
  /\ geminiText = <<>>
  /\ sanitized = [route \in {"index", "new"} |-> <<"pending">>]

InitEmptyStore ==
  /\ db = EmptyDb
  /\ identity = [GrammarPoints |-> 0, Examples |-> 0, Vocabulary |-> 0,
                 QuestionBatch |-> 0, questions |-> 0, question_options |-> 0]

\* the requests of R arrive, the others are not sent
Arrive(R) ==
  pc = [r \in Requests |->
          IF r \notin R THEN "done"
          ELSE IF r \in Writers THEN "gemini" ELSE "connect"]

\* one write and one read in flight together
Init ==
  /\ InitEmptyStore
  /\ InitRequests
  /\ InitSanitizerIdle
  /\ Arrive(SoloWriters \cup Readers)

Next ==
  \/ \E w \in Writers : CallGemini(w)
  \/ \E w \in Writers : Connect(w)
  \/ \E w \in Writers : Begin(w)
  \/ \E w \in Writers : InsertGrammar(w)
  \/ \E w \in Writers : InsertExample(w)
  \/ \E w \in Writers : InsertVocab(w)
  \/ \E w \in Writers : Commit(w)
  \/ \E w \in Writers : Catch(w)
  \/ \E w \in Writers : Finally(w)
  \/ \E r \in Readers : RConnect(r)
  \/ \E r \in Readers : RQuery(r)
  \/ \E r \in Readers : RFinally(r)

Spec == Init /\ [][Next]_vars

(* ---------- specification: two writes in flight together ---------- *)
InitWriters ==
  /\ InitEmptyStore
  /\ InitRequests
  /\ InitSanitizerIdle
  /\ Arrive(PairWriters)

NextWriters ==
  \/ \E w \in Writers : CallGemini(w)
  \/ \E w \in Writers : Connect(w)
  \/ \E w \in Writers : Begin(w)
  \/ \E w \in Writers : InsertGrammar(w)
  \/ \E w \in Writers : InsertExample(w)
  \/ \E w \in Writers : InsertVocab(w)
  \/ \E w \in Writers : Commit(w)
  \/ \E w \in Writers : Catch(w)
  \/ \E w \in Writers : Finally(w)

SpecWriters == InitWriters /\ [][NextWriters]_vars

(* ---------- specification: a write of a document that may lack fields ---------- *)
InitSchema ==
  /\ InitEmptyStore
  /\ InitRequests
  /\ InitSanitizerIdle
  /\ Arrive(LooseWriters)

SpecSchema == InitSchema /\ [][NextWriters]_vars

(* ---------- GET /api/exam/today (src/new.js) ---------- *)
BatchRow(id, day, gl, kl, x, cm) ==
  [batch_id |-> id, created_at |-> [date |-> day, time |-> id],
   grammar_list |-> gl, kanji_list |-> kl, xid |-> x, committed |-> cm]
QuestionRow(id, bid, ty, q, a, ex, x, cm) ==
  [question_id |-> id, batch_id |-> bid, question_type |-> ty,
   question_text |-> q, answer |-> a, explanation |-> ex,
   xid |-> x, committed |-> cm]
OptionRow(id, qid, t, c, x, cm) ==
  [option_id |-> id, question_id |-> qid, option_text |-> t, is_correct |-> c,
   xid |-> x, committed |-> cm]

\* JSON.stringify of a list of texts, and JSON.parse of such a text
JsonStringify(list) == [json |-> list]
JsonParse(text) == text.json

\* SELECT TOP 1 ... FROM QuestionBatch
\* WHERE CAST(created_at AS DATE) = CAST(GETDATE() AS DATE) ORDER BY created_at DESC
SelectTodayBatch(d) ==
  LET today == {b \in d.QuestionBatch : Visible(b) /\ b.created_at.date = "today"}
  IN  IF today = {} THEN <<>>
      ELSE <<CHOOSE b \in today :
               \A o \in today : o.created_at.time <= b.created_at.time>>

\* ORDER BY q.question_id, qo.option_id
ByQuestionOption(a, b) ==
  \/ a.question_id < b.question_id
  \/ a.question_id = b.question_id /\ a.option_id < b.option_id

\* SELECT ... FROM questions q JOIN question_options qo
\*   ON q.question_id = qo.question_id WHERE q.batch_id = @batch_id ORDER BY ...
SelectQuestions(d, batch_id) ==
  OrderBy({[question_id |-> q.question_id, question_type |-> q.question_type,
            question_text |-> q.question_text, answer |-> q.answer,
            explanation |-> q.explanation, option_id |-> qo.option_id,
            option_text |-> qo.option_text, is_correct |-> qo.is_correct] :
             <<q, qo>> \in {pr \in d.questions \X d.question_options :
                              /\ Visible(pr[1]) /\ Visible(pr[2])
                              /\ pr[1].question_id = pr[2].question_id
                              /\ pr[1].batch_id = batch_id}},
          ByQuestionOption)

\* the grouping loop over rows[k..]; questionsMap maps a question id to its node
RECURSIVE GroupQuestions(_, _, _)
GroupQuestions(rows, k, questionsMap) ==
  IF k > Len(rows) THEN questionsMap
  ELSE LET row == rows[k]
           m1 == IF row.question_id \in DOMAIN questionsMap THEN questionsMap
                 ELSE [id \in DOMAIN questionsMap \cup {row.question_id} |->
                         IF id = row.question_id
                         THEN [question_id |-> row.question_id,
                               question_type |-> row.question_type,
                               question_text |-> row.question_text,
                               answer |-> row.answer,
                               explanation |-> row.explanation,
                               options |-> <<>>]
                         ELSE questionsMap[id]]
       IN  GroupQuestions(rows, k + 1,
             [m1 EXCEPT ![row.question_id].options =
                Append(@, [option_id |-> row.option_id,
                           option_text |-> row.option_text,
                           is_correct |-> row.is_correct])])

\* pool = await sql.connect(config)
XConnect(x) ==
  /\ pc[x] = "connect"
  /\ \/ /\ pool' = [pool EXCEPT ![x] = ConnectedPool(x)]
        /\ poolOpen' = poolOpen \cup {ConnectedPool(x)}
        /\ globalPool' = [globalPool EXCEPT ![Server(x)] = ConnectedPool(x)]
        /\ pc' = [pc EXCEPT ![x] = "batch"]
        /\ UNCHANGED <<err, resp>>
     \/ /\ globalPool[Server(x)] = NoPool
        /\ err' = [err EXCEPT ![x] = "Failed to connect"]
        /\ Send(x, [status |-> 500, error |-> "Failed to connect"])
        /\ pc' = [pc EXCEPT ![x] = "finally"]
        /\ UNCHANGED <<pool, poolOpen, globalPool>>
  /\ UNCHANGED <<storeVars, closedBy, tx, writerVars, rejected, readerVars,
                 disturbed, sanVars,
                 questionVars>>

\* 1. the latest batch created today, 404 when there is none
XBatch(x) ==
  /\ pc[x] = "batch"
  /\ \/ /\ pool[x] \in poolOpen
        /\ LET batch == SelectTodayBatch(db)
           IN  IF Len(batch) = 0
               THEN /\ Send(x, [status |-> 404, message |-> "No exam found for today"])
                    /\ pc' = [pc EXCEPT ![x] = "finally"]
                    /\ req' = req
               ELSE /\ req' = [req EXCEPT ![x] = [mode |-> "exam", id |-> batch[1].batch_id]]
                    /\ pc' = [pc EXCEPT ![x] = "questions"]
                    /\ resp' = resp
        /\ UNCHANGED <<err, disturbed>>
     \/ /\ err' = [err EXCEPT ![x] = "query failed"]
        /\ Send(x, [status |-> 500, error |-> "query failed"])
        /\ disturbed' = Disturb(x)
        /\ pc' = [pc EXCEPT ![x] = "finally"]
        /\ req' = req
  /\ UNCHANGED <<storeVars, poolVars, pool, tx, writerVars, rejected, recordset,
                 overlap, sanVars,
                 questionVars>>

\* 2.-4. the questions and options of the batch, grouped, and the response
XQuestions(x) ==
  /\ pc[x] = "questions"
  /\ \/ /\ pool[x] \in poolOpen
        /\ LET rows == SelectQuestions(db, req[x].id)
               batch == CHOOSE b \in db.QuestionBatch :
                          Visible(b) /\ b.batch_id = req[x].id
           IN  /\ recordset' = [recordset EXCEPT ![x] = rows]
               /\ Send(x, [status |-> 200, batch_id |-> batch.batch_id,
                           created_at |-> batch.created_at,
                           grammar_list |-> JsonParse(batch.grammar_list),
                           kanji_list |-> JsonParse(batch.kanji_list),
                           questions |-> ObjectValues(GroupQuestions(rows, 1, <<>>))])
        /\ UNCHANGED <<err, disturbed>>
     \/ /\ err' = [err EXCEPT ![x] = "query failed"]
        /\ Send(x, [status |-> 500, error |-> "query failed"])
        /\ disturbed' = Disturb(x)
        /\ recordset' = recordset
  /\ pc' = [pc EXCEPT ![x] = "finally"]
  /\ UNCHANGED <<storeVars, poolVars, pool, tx, writerVars, rejected, req, overlap,
                 sanVars,
                 questionVars>>

\* finally { if (pool) await pool.close() }
XFinally(x) ==
  /\ pc[x] = "finally"
  /\ IF pool[x] # NoPool THEN ClosePool(pool[x], x)
     ELSE UNCHANGED <<poolVars, tx, db>>
  /\ pc' = [pc EXCEPT ![x] = "done"]
  /\ UNCHANGED <<identity, pool, writerVars, err, resp, rejected, readerVars,
                 disturbed, sanVars,
                 questionVars>>

(* ---------- specification: reads of a store that already holds rows ---------- *)
\* a store of committed rows with identifiers up to the bounds; every text
\* column is distinct per row
Subfunctions(D, R) == UNION {[S -> R] : S \in SUBSET D}

GrammarStores ==
  {[EmptyDb EXCEPT
      !.GrammarPoints = {GrammarRow(g, Txt("g", "concept", g, 0),
                            Txt("g", "meaning", g, 0), Txt("g", "details", g, 0),
                            "init", TRUE) : g \in G},
      !.Examples = {ExampleRow(e, parent[e], Txt("e", "japanese", e, 0),
                            Txt("e", "romaji", e, 0), Txt("e", "english", e, 0),
                            "init", TRUE) : e \in DOMAIN parent},
      !.Vocabulary = {VocabRow(v, owner[v], Txt("v", "word", v, 0),
                            Txt("v", "vromaji", v, 0), Txt("v", "vmeaning", v, 0),
                            "init", TRUE) : v \in DOMAIN owner}] :
     <<G, parent, owner>> \in (SUBSET (1..MaxRootId))
                                \X Subfunctions(1..MaxChildId, 1..MaxRootId)
                                \X Subfunctions(1..MaxLeafId, 1..MaxChildId)}

ExamStores ==
  {[EmptyDb EXCEPT
      !.QuestionBatch = {BatchRow(b, day[b], JsonStringify(<<Txt("b", "grammar", b, 0)>>),
                            JsonStringify(<<Txt("b", "kanji", b, 0)>>), "init", TRUE) :
                           b \in DOMAIN day},
      !.questions = {QuestionRow(q, parent[q], Txt("q", "type", q, 0),
                            Txt("q", "question", q, 0), Txt("q", "answer", q, 0),
                            Txt("q", "explanation", q, 0), "init", TRUE) :
                       q \in DOMAIN parent},
      !.question_options = {OptionRow(o, owner[o], Txt("o", "option", o, 0), FALSE,
                            "init", TRUE) : o \in DOMAIN owner}] :
     <<day, parent, owner>> \in
        {f \in Subfunctions(1..MaxBatchId, {"yesterday", "today"}) :
           \A a, b \in DOMAIN f : a < b /\ f[a] = "today" => f[b] = "today"}
        \X Subfunctions(1..MaxChildId, 1..MaxBatchId)
        \X Subfunctions(1..MaxLeafId, 1..MaxChildId)}

\* a grammar read of the index.js server, or an exam read of the new.js server
InitRead ==
  /\ \/ db \in GrammarStores /\ Arrive(Readers)
     \/ db \in ExamStores /\ Arrive(ExamReaders)
  /\ identity = [GrammarPoints |-> MaxRootId, Examples |-> MaxChildId,
                 Vocabulary |-> MaxLeafId, QuestionBatch |-> MaxBatchId,
                 questions |-> MaxChildId, question_options |-> MaxLeafId]
  /\ InitRequests
  /\ InitSanitizerIdle

NextRead ==
  \/ \E r \in Readers : RConnect(r)
  \/ \E r \in Readers : RQuery(r)
  \/ \E r \in Readers : RFinally(r)
  \/ \E x \in ExamReaders : XConnect(x)
  \/ \E x \in ExamReaders : XBatch(x)
  \/ \E x \in ExamReaders : XQuestions(x)
  \/ \E x \in ExamReaders : XFinally(x)

SpecRead == InitRead /\ [][NextRead]_vars

(* ---------- specification: the sanitizer on generator texts ---------- *)
\* geminiText is not empty: the handlers throw on a falsy text first
Texts == UNION {[1..n -> Tokens] : n \in 1..MaxLen}
Routes == {"index", "new"}

InitSanitizer ==
  /\ InitEmptyStore
  /\ InitRequests
  /\ Arrive({})
  /\ geminiText \in Texts
  /\ sanitized = [route \in Routes |-> <<"pending">>]

\* POST /api/gemini strips the fences
SanitizeIndexRoute ==
  /\ sanitized["index"] = <<"pending">>
  /\ sanitized' = [sanitized EXCEPT !["index"] = SanitizeIndex(geminiText)]
  /\ UNCHANGED <<storeVars, poolVars, pc, pool, tx, writerVars, err, resp, rejected,
                 readerVars, disturbed, geminiText, questionVars>>

\* POST /api/gemini/grammar and POST /api/gemini/questions strip the fences
SanitizeNewRoute ==
  /\ sanitized["new"] = <<"pending">>
  /\ sanitized' = [sanitized EXCEPT !["new"] = SanitizeNew(geminiText)]
  /\ UNCHANGED <<storeVars, poolVars, pc, pool, tx, writerVars, err, resp, rejected,
                 readerVars, disturbed, geminiText, questionVars>>

NextSanitizer == SanitizeIndexRoute \/ SanitizeNewRoute

SpecSanitizer == InitSanitizer /\ [][NextSanitizer]_vars

(* ---------- POST /api/gemini/questions (src/new.js) ---------- *)
\* SELECT TOP 5 ... FROM GrammarPoints, SELECT TOP 10 ... FROM KanjiInfo
TopGrammar == 5
TopKanji == 10

KanjiRow(id, k, x, cm) == [Id |-> id, Kanji |-> k, xid |-> x, committed |-> cm]

\* a faulty variant of Top: the SELECT without its TOP clause
Everything(n, rows) == {rows}

\* TOP n of a row set in some order: n of the rows, all of them when there are fewer
Top(n, rows) ==
  {S \in SUBSET rows :
     Cardinality(S) = IF Cardinality(rows) < n THEN Cardinality(rows) ELSE n}

\* ORDER BY NEWID() puts the rows in any order; two of the orders are kept
NewIdOrders == {"ascending", "descending"}

\* SELECT TOP 5 GrammarId, Concept FROM GrammarPoints ORDER BY NEWID()
SampleGrammar(d) ==
  {OrderBy(S, LAMBDA a, b : IF o = "ascending" THEN a.GrammarId < b.GrammarId
                                               ELSE a.GrammarId > b.GrammarId) :
     <<S, o>> \in Top(TopGrammar, {g \in d.GrammarPoints : Visible(g)}) \X NewIdOrders}

\* SELECT TOP 10 Id, Kanji FROM KanjiInfo ORDER BY NEWID()
SampleKanji(d) ==
  {OrderBy(S, LAMBDA a, b : IF o = "ascending" THEN a.Id < b.Id ELSE a.Id > b.Id) :
     <<S, o>> \in Top(TopKanji, {k \in d.KanjiInfo : Visible(k)}) \X NewIdOrders}

\* option and answer texts the generator may give: C is no option
OptionTexts == {"A", "B"}
AnswerTexts == OptionTexts \cup {"C"}

\* the make of the questions of a set: their options, their answer, and the
\* option the generator itself marks as the correct one
QuestionShapes ==
  [options : UNION {[1..n -> OptionTexts] : n \in 0..MaxOptions} \cup {NoOptions},
   answer : AnswerTexts,
   correct_option : OptionTexts]

\* a parsed generator output: n question objects of one make
QuestionSet(shape, n) ==
  [k \in 1..n |->
     [question_type |-> Txt("q", "type", k, 0),
      question |-> Txt("q", "question", k, 0),
      options |-> shape.options,
      answer |-> shape.answer,
      explanation |-> Txt("q", "explanation", k, 0),
      correct_option |-> shape.correct_option]]

\* the prompt asks to generate 9 questions
ExpectedCount == 9

\* the generator gives the 9 questions, or fewer, or something that is no list
QuestionSets ==
  {QuestionSet(shape, n) : shape \in QuestionShapes,
                           n \in (0..MaxQuestions) \cup {ExpectedCount}}
    \cup {NotIterable}

\* q2 always gets one well-formed question
QuestionSetsOf(q) ==
  IF q = "q1" THEN QuestionSets
  ELSE {QuestionSet([options |-> <<"A", "B">>, answer |-> "A", correct_option |-> "A"], 1)}

\* generator text where the question path decodes it: doc is the text of a
\* JSON value, x is text that is no JSON
DecodeTokens == {Fence, "json", " ", "x", "doc"}
DecodeTexts == UNION {[1..n -> DecodeTokens] : n \in 1..MaxTextLen}
TextsOf(q) == IF q = "q1" THEN DecodeTexts ELSE {<<"doc">>}

\* JSON.parse accepts a JSON value with whitespace around it and nothing else
ValidJson(text) == Trim(text) = <<"doc">>

\* pool = await sql.connect(config)
QConnect(q) ==
  /\ pc[q] = "connect"
  /\ \/ /\ pool' = [pool EXCEPT ![q] = ConnectedPool(q)]
        /\ poolOpen' = poolOpen \cup {ConnectedPool(q)}
        /\ globalPool' = [globalPool EXCEPT ![Server(q)] = ConnectedPool(q)]
        /\ pc' = [pc EXCEPT ![q] = "selectGrammar"]
        /\ err' = err
     \/ /\ globalPool[Server(q)] = NoPool
        /\ Throw(q, "Failed to connect")
        /\ UNCHANGED <<pool, poolOpen, globalPool>>
  /\ UNCHANGED <<storeVars, closedBy, tx, writerVars, resp, rejected, readerVars,
                 disturbed, sanVars, questionVars>>

\* 1. grammarList = the concepts of 5 random grammar points
QSelectGrammar(q) ==
  /\ pc[q] = "selectGrammar"
  /\ \/ /\ pool[q] \in poolOpen
        /\ \E rows \in SampleGrammar(db) :
             grammarList' = [grammarList EXCEPT
                               ![q] = [k \in 1..Len(rows) |-> rows[k].Concept]]
        /\ pc' = [pc EXCEPT ![q] = "selectKanji"]
        /\ UNCHANGED <<err, disturbed>>
     \/ /\ Throw(q, "query failed")
        /\ disturbed' = Disturb(q)
        /\ grammarList' = grammarList
  /\ UNCHANGED <<storeVars, poolVars, pool, tx, writerVars, resp, rejected,
                 readerVars, sanVars, kanjiList, batchId, questions, questionId>>

\* 2. kanjiList = 10 random kanji
QSelectKanji(q) ==
  /\ pc[q] = "selectKanji"
  /\ \/ /\ pool[q] \in poolOpen
        /\ \E rows \in SampleKanji(db) :
             kanjiList' = [kanjiList EXCEPT
                             ![q] = [k \in 1..Len(rows) |-> rows[k].Kanji]]
        /\ pc' = [pc EXCEPT ![q] = "begin"]
        /\ UNCHANGED <<err, disturbed>>
     \/ /\ Throw(q, "query failed")
        /\ disturbed' = Disturb(q)
        /\ kanjiList' = kanjiList
  /\ UNCHANGED <<storeVars, poolVars, pool, tx, writerVars, resp, rejected,
                 readerVars, sanVars, grammarList, batchId, questions, questionId>>

\* 3. tx = new sql.Transaction(pool); await tx.begin()
QBegin(q) ==
  /\ pc[q] = "begin"
  /\ \/ /\ pool[q] \in poolOpen
        /\ tx' = [tx EXCEPT ![q] = "begun"]
        /\ pc' = [pc EXCEPT ![q] = "insertBatch"]
        /\ UNCHANGED <<err, disturbed>>
     \/ /\ tx' = [tx EXCEPT ![q] = "created"]
        /\ Throw(q, "begin failed")
        /\ disturbed' = Disturb(q)
  /\ UNCHANGED <<storeVars, poolVars, pool, writerVars, resp, rejected, readerVars,
                 sanVars, questionVars>>

\* INSERT INTO QuestionBatch (grammar_list, kanji_list) OUTPUT INSERTED.batch_id
QInsertBatch(q) ==
  /\ pc[q] = "insertBatch"
  /\ \/ /\ tx[q] = "begun"
        /\ LET id == identity.QuestionBatch + 1
           IN  /\ identity' = [identity EXCEPT !.QuestionBatch = id]
               /\ db' = [db EXCEPT !.QuestionBatch = @ \cup
                           {BatchRow(id, "today", JsonStringify(grammarList[q]),
                                     JsonStringify(kanjiList[q]),
                                     q, RequestScope # "tx")}]
               /\ batchId' = [batchId EXCEPT ![q] = id]
        /\ pc' = [pc EXCEPT ![q] = "gemini"]
        /\ UNCHANGED <<tx, err, disturbed>>
     \/ /\ FailStatement(q, "insert QuestionBatch failed")
        /\ UNCHANGED <<identity, batchId>>
  /\ UNCHANGED <<poolVars, pool, writerVars, resp, rejected, readerVars, sanVars,
                 grammarList, kanjiList, questions, questionId>>

\* where the loops over questions and q.options go after question n and its
\* options up to m; a for-of over what cannot be iterated throws a TypeError
AfterOption(doc, n, m) ==
  IF doc = NotIterable
  THEN [pc |-> "catch", i |-> n, j |-> m, err |-> "questions is not iterable"]
  ELSE IF n >= 1 /\ n <= Len(doc) /\ m = 0 /\ doc[n].options = NoOptions
  THEN [pc |-> "catch", i |-> n, j |-> m, err |-> "q.options is not iterable"]
  ELSE IF n >= 1 /\ n <= Len(doc) /\ m < Len(doc[n].options)
  THEN [pc |-> "insertOption", i |-> n, j |-> m + 1, err |-> ""]
  ELSE IF n < Len(doc)
  THEN [pc |-> "insertQuestion", i |-> n + 1, j |-> 0, err |-> ""]
  ELSE [pc |-> "commit", i |-> n, j |-> m, err |-> ""]

\* 4.-5. axios.post, the text check, fence stripping, JSON.parse
QGemini(q) ==
  /\ pc[q] = "gemini"
  /\ \/ /\ \E message \in {"Request failed", "Invalid Gemini response format"} :
             Throw(q, message)
        /\ UNCHANGED <<geminiText, questions, i, j>>
     \/ \E text \in TextsOf(q) :
          /\ geminiText' = text
          /\ IF ValidJson(SanitizeNew(text))
             THEN \E doc \in QuestionSetsOf(q) :
                    /\ questions' = [questions EXCEPT ![q] = doc]
                    /\ GotoOrThrow(q, AfterOption(doc, 0, 0))
             ELSE /\ Throw(q, "Unexpected token in JSON")
                  /\ UNCHANGED <<questions, i, j>>
  /\ UNCHANGED <<storeVars, poolVars, pool, tx, geminiData, grammarId, exampleId,
                 resp, rejected, readerVars, disturbed, sanitized, grammarList,
                 kanjiList, batchId, questionId>>

\* INSERT INTO questions ... OUTPUT INSERTED.question_id, for questions[i]
QInsertQuestion(q) ==
  /\ pc[q] = "insertQuestion"
  /\ \/ /\ tx[q] = "begun"
        /\ LET id == identity.questions + 1
               doc == questions[q]
               question == doc[i[q]]
           IN  /\ identity' = [identity EXCEPT !.questions = id]
               /\ db' = [db EXCEPT !.questions = @ \cup
                           {QuestionRow(id, batchId[q], question.question_type,
                                        question.question, question.answer,
                                        question.explanation,
                                        q, RequestScope # "tx")}]
               /\ questionId' = [questionId EXCEPT ![q] = id]
               /\ GotoOrThrow(q, AfterOption(doc, i[q], 0))
        /\ UNCHANGED <<tx, disturbed>>
     \/ /\ FailStatement(q, "insert questions failed")
        /\ UNCHANGED <<identity, questionId, i, j>>
  /\ UNCHANGED <<poolVars, pool, geminiData, grammarId, exampleId, resp, rejected,
                 readerVars, sanVars, grammarList, kanjiList, batchId, questions>>

\* a faulty variant of IsCorrect: the flag the generator supplied
TrustGenerator(opt, question) == opt = question.correct_option
\* .input('is_correct', sql.Bit, opt === q.answer)
IsCorrect(opt, question) == opt = question.answer

\* INSERT INTO question_options ..., for q.options[j]
QInsertOption(q) ==
  /\ pc[q] = "insertOption"
  /\ \/ /\ tx[q] = "begun"
        /\ LET id == identity.question_options + 1
               doc == questions[q]
               question == doc[i[q]]
               opt == question.options[j[q]]
           IN  /\ identity' = [identity EXCEPT !.question_options = id]
               /\ db' = [db EXCEPT !.question_options = @ \cup
                           {OptionRow(id, questionId[q], opt, IsCorrect(opt, question),
                                      q, RequestScope # "tx")}]
               /\ GotoOrThrow(q, AfterOption(doc, i[q], j[q]))
        /\ UNCHANGED <<tx, disturbed>>
     \/ /\ FailStatement(q, "insert question_options failed")
        /\ UNCHANGED <<identity, i, j>>
  /\ UNCHANGED <<poolVars, pool, geminiData, grammarId, exampleId, resp, rejected,
                 readerVars, sanVars, questionVars>>

\* await tx.commit(); res.json({message, batch_id, grammar_used, kanji_used, count})
QCommit(q) ==
  /\ pc[q] = "commit"
  /\ \/ /\ tx[q] = "begun"
        /\ db' = CommitRows(db, q)
        /\ tx' = [tx EXCEPT ![q] = "committed"]
        /\ Send(q, [status |-> 200, batch_id |-> batchId[q],
                    grammar_used |-> grammarList[q], kanji_used |-> kanjiList[q],
                    count |-> Len(questions[q])])
        /\ pc' = [pc EXCEPT ![q] = "finally"]
        /\ UNCHANGED <<err, disturbed>>
     \/ /\ FailStatement(q, "commit failed")
        /\ resp' = resp
  /\ UNCHANGED <<identity, poolVars, pool, writerVars, rejected, readerVars, sanVars,
                 questionVars>>

(* ---------- specification: one question-generation call ---------- *)
\* a store of g committed grammar points and k committed kanji
QuestionStore(g, k) ==
  [EmptyDb EXCEPT
     !.GrammarPoints = {GrammarRow(n, Txt("g", "concept", n, 0),
                           Txt("g", "meaning", n, 0), Txt("g", "details", n, 0),
                           "init", TRUE) : n \in 1..g},
     !.KanjiInfo = {KanjiRow(n, Txt("k", "kanji", n, 0), "init", TRUE) : n \in 1..k}]

InitQuestionIdentity(g) ==
  identity = [GrammarPoints |-> g, Examples |-> 0, Vocabulary |-> 0,
              QuestionBatch |-> 0, questions |-> 0, question_options |-> 0]

\* q1 calls against a store of one grammar point and one kanji
InitQuestions ==
  /\ db = QuestionStore(1, 1)
  /\ InitQuestionIdentity(1)
  /\ InitRequests
  /\ InitSanitizerIdle
  /\ Arrive({"q1"})

NextQuestions ==
  \/ \E q \in QuestionWriters : QConnect(q)
  \/ \E q \in QuestionWriters : QSelectGrammar(q)
  \/ \E q \in QuestionWriters : QSelectKanji(q)
  \/ \E q \in QuestionWriters : QBegin(q)
  \/ \E q \in QuestionWriters : QInsertBatch(q)
  \/ \E q \in QuestionWriters : QGemini(q)
  \/ \E q \in QuestionWriters : QInsertQuestion(q)
  \/ \E q \in QuestionWriters : QInsertOption(q)
  \/ \E q \in QuestionWriters : QCommit(q)
  \/ \E q \in QuestionWriters : Catch(q)
  \/ \E q \in QuestionWriters : Finally(q)

SpecQuestions == InitQuestions /\ [][NextQuestions]_vars

(* ---------- specification: the sampling of a question-generation call ---------- *)
\* q2 calls against stores of up to MaxGrammarRows grammar points and
\* MaxKanjiRows kanji, some with fewer rows than the SELECTs ask for
InitSampling ==
  /\ \E g \in (MaxGrammarRows - 2)..MaxGrammarRows :
       /\ \E k \in (MaxKanjiRows - 2)..MaxKanjiRows : db = QuestionStore(g, k)
       /\ InitQuestionIdentity(g)
  /\ InitRequests
  /\ InitSanitizerIdle
  /\ Arrive({"q2"})

SpecSampling == InitSampling /\ [][NextQuestions]_vars

(* ====================== properties ====================== *)
Tables == {"GrammarPoints", "Examples", "Vocabulary"}

\* the call of w ended with the success response
Succeeded(w) == \E k \in 1..Len(resp[w]) : resp[w][k].status = 200
\* the call of w met a failure and its handler has ended
Failed(w) == pc[w] = "done" /\ err[w] # ""

\* rows of table t written by w that a reader can see
CommittedBy(w, t) == {row \in db[t] : row.xid = w /\ row.committed}

\* positions of the vocab entries of a document
VocabPositions(doc) ==
  {nm \in (1..Len(doc.examples)) \X (1..MaxVocab + 1) :
     nm[2] <= Len(doc.examples[nm[1]].vocab)}

\* the store holds every row of w's document, and no other row of w
AllRows(w) ==
  LET doc == geminiData[w]
      G == CommittedBy(w, "GrammarPoints")
      E == CommittedBy(w, "Examples")
      V == CommittedBy(w, "Vocabulary")
  IN  /\ Cardinality(G) = 1
      /\ \A g \in G : /\ g.Concept = doc.concept /\ g.Meaning = doc.meaning
                      /\ g.Details = doc.details
      /\ Cardinality(E) = Len(doc.examples)
      /\ \A n \in 1..Len(doc.examples) :
           \E e \in E : /\ e.Japanese = doc.examples[n].japanese
                        /\ e.Romaji = doc.examples[n].romaji
                        /\ e.English = doc.examples[n].english
      /\ Cardinality(V) = Cardinality(VocabPositions(doc))
      /\ \A nm \in VocabPositions(doc) :
           LET vocab == doc.examples[nm[1]].vocab[nm[2]]
           IN  \E v \in V : /\ v.Word = vocab.word /\ v.Romaji = vocab.romaji
                            /\ v.Meaning = vocab.meaning
      /\ \A t \in Tables : \A row \in db[t] : row.xid = w => row.committed

\* the store holds no row of w, visible or pending
NoRows(w) == \A t \in Tables : \A row \in db[t] : row.xid # w

\* C1: when a write call has ended, the store holds either every row of its
\* hierarchy (the call succeeded) or no row of it (the call failed at the
\* generator, the connect, the begin, any insert or the commit); after a
\* failed call of the only writer the tables are what they were before it.
C1_AllOrNothing ==
  \A w \in Writers :
    pc[w] = "done" /\ geminiData[w] # NoDoc =>
      \/ Succeeded(w) /\ AllRows(w)
      \/ /\ ~Succeeded(w) /\ NoRows(w)
         /\ (\A o \in Writers \ {w} : geminiData[o] = NoDoc) => db = EmptyDb

\* a call that failed at the commit of a document with two examples, after
\* every insert had been made, and left the tables as they were
C1_Witness ==
  /\ Failed("w1")
  /\ err["w1"] = "commit failed"
  /\ Len(geminiData["w1"].examples) = 2
  /\ identity.Examples = 2 /\ identity.Vocabulary >= 2
  /\ db = EmptyDb

\* the read of root id as a later request would make it
ReadBack(id) == Answer([mode |-> "one", id |-> id], SelectGrammarById(db, id))

\* a node of GET /api/grammar without the identifiers the store added
StripIds(node) ==
  [concept |-> node.concept, meaning |-> node.meaning, details |-> node.details,
   examples |-> [n \in 1..Len(node.examples) |->
      [japanese |-> node.examples[n].japanese, romaji |-> node.examples[n].romaji,
       english |-> node.examples[n].english, vocab |-> node.examples[n].vocab]]]

\* C2: a read whose SELECT ran, at any point between the statements of a
\* write, returns for a root either not-found or the complete hierarchy of a
\* committed write, never a part of one; and once a write has failed the read
\* of its root id is not-found.
C2_NoPartialRead ==
  /\ \A r \in Readers : \A k \in 1..Len(resp[r]) :
       resp[r][k].status = 200 =>
         IF req[r].mode = "one"
         THEN \E w \in Writers : /\ tx[w] = "committed"
                                 /\ grammarId[w] = req[r].id
                                 /\ resp[r][k].body = geminiData[w]
         ELSE \A n \in 1..Len(resp[r][k].body) :
                \E w \in Writers : /\ tx[w] = "committed"
                                   /\ grammarId[w] = resp[r][k].body[n].id
                                   /\ StripIds(resp[r][k].body[n]) = geminiData[w]
  /\ \A w \in Writers :
       Failed(w) /\ grammarId[w] # Undefined => ReadBack(grammarId[w]).status = 404

\* a read of the root being written ran while the write had inserted the
\* root and at least one example but not committed, and answered not-found
C2_Witness ==
  \E r \in Readers :
    /\ "w1" \in overlap[r]
    /\ req[r] = [mode |-> "one", id |-> grammarId["w1"]]
    /\ Len(geminiData["w1"].examples) >= 1
    /\ resp[r] = <<[status |-> 404, error |-> "Grammar point not found"]>>

\* C3: after a write succeeded with root id N and document D, the single-root
\* read of N answers 200 with concept, meaning and details of D, the examples
\* of D in order and under each its vocab entries in order.
C3_RoundTrip ==
  \A w \in Writers : \A k \in 1..Len(resp[w]) :
    resp[w][k].status = 200 =>
      ReadBack(resp[w][k].grammarId) =
        [status |-> 200, body |-> resp[w][k].geminiData]

\* the reader got back the written document: one example with two vocab entries
C3_Witness ==
  \E r \in Readers :
    /\ Succeeded("w1")
    /\ Len(geminiData["w1"].examples) = 1
    /\ Len(geminiData["w1"].examples[1].vocab) = 2
    /\ req[r] = [mode |-> "one", id |-> grammarId["w1"]]
    /\ resp[r] = <<[status |-> 200, body |-> geminiData["w1"]]>>

\* C4: a write request that met a failure has, when its handler has ended,
\* sent exactly one response, a failure carrying the error's message.
C4_FailureAnswered ==
  \A w \in Writers :
    Failed(w) =>
      /\ Len(resp[w]) = 1
      /\ resp[w][1] = [status |-> 500, error |-> err[w]]

\* C5: no store operation of a request fails because another request closed
\* the connection pool.
C5_NoInterference == disturbed = {}

\* C6: with two writes interleaved statement by statement, every visible
\* Example row points to the GrammarPoint of the request that wrote it, every
\* visible Vocabulary row to an Example of the request that wrote it, and the
\* read of each committed root gives that request's own document.
C6_SelfConsistent ==
  /\ \A e \in db.Examples :
       e.committed =>
         \E g \in db.GrammarPoints :
           g.GrammarId = e.GrammarId /\ g.xid = e.xid /\ g.committed
  /\ \A v \in db.Vocabulary :
       v.committed =>
         \E e \in db.Examples :
           e.ExampleId = v.ExampleId /\ e.xid = v.xid /\ e.committed
  /\ \A w \in Writers :
       tx[w] = "committed" =>
         ReadBack(grammarId[w]) = [status |-> 200, body |-> geminiData[w]]

\* both writes committed after their inserts interleaved: w3 got the first
\* root id and w2 the first example id
C6_Witness ==
  /\ tx["w2"] = "committed" /\ tx["w3"] = "committed"
  /\ grammarId["w3"] < grammarId["w2"]
  /\ \E e2 \in CommittedBy("w2", "Examples"), e3 \in CommittedBy("w3", "Examples") :
       e2.ExampleId < e3.ExampleId
  /\ CommittedBy("w2", "Vocabulary") # {} /\ CommittedBy("w3", "Vocabulary") # {}

(* ---------- properties of the reconstruction ---------- *)
\* the answers a read request got from rows its SELECT returned
Answered(r) == {k \in 1..Len(resp[r]) : err[r] = "" /\ resp[r][k].status = 200}

\* distinct identifiers in a flat row set
RootIds(rows) == {rows[k].GrammarId : k \in 1..Len(rows)}
ChildIds(rows, g) ==
  {rows[k].ExampleId :
     k \in {n \in 1..Len(rows) : rows[n].GrammarId = g /\ rows[n].ExampleId # NULL}}
LeafIds(rows, e) ==
  {rows[k].VocabId :
     k \in {n \in 1..Len(rows) : rows[n].ExampleId = e /\ rows[n].VocabId # NULL}}

\* index of the first row with the identifier
FirstRoot(rows, g) ==
  CHOOSE k \in 1..Len(rows) :
    rows[k].GrammarId = g /\ \A n \in 1..(k - 1) : rows[n].GrammarId # g
FirstChild(rows, e) ==
  CHOOSE k \in 1..Len(rows) :
    rows[k].ExampleId = e /\ \A n \in 1..(k - 1) : rows[n].ExampleId # e
FirstLeaf(rows, v) ==
  CHOOSE k \in 1..Len(rows) :
    rows[k].VocabId = v /\ \A n \in 1..(k - 1) : rows[n].VocabId # v

\* positions of the child node made from child e (every text column of the
\* stores read here is distinct per row), and of the leaf made from v
ChildNodes(examples, rows, e) ==
  {n \in 1..Len(examples) : examples[n].japanese = rows[FirstChild(rows, e)].Japanese}
LeafNodes(vocab, rows, v) ==
  {n \in 1..Len(vocab) : vocab[n].word = rows[FirstLeaf(rows, v)].Word}

\* one child node per distinct child id of root g, one leaf per distinct
\* grandchild id under its child
OnePerChild(examples, rows, g) ==
  /\ Len(examples) = Cardinality(ChildIds(rows, g))
  /\ \A e \in ChildIds(rows, g) :
       /\ Cardinality(ChildNodes(examples, rows, e)) = 1
       /\ \A n \in ChildNodes(examples, rows, e) :
            /\ Len(examples[n].vocab) = Cardinality(LeafIds(rows, e))
            /\ \A v \in LeafIds(rows, e) :
                 Cardinality(LeafNodes(examples[n].vocab, rows, v)) = 1

\* C7: from the rows of the join, in which root and child columns repeat once
\* per grandchild, the reconstruction makes exactly one node per distinct
\* root id, under it exactly one child node per distinct child id, and under
\* that exactly one leaf per distinct grandchild id.
C7_OneNodePerId ==
  \A r \in Readers : \A k \in Answered(r) :
    LET rows == recordset[r]
        out == resp[r][k].body
    IN  IF req[r].mode = "one"
        THEN /\ RootIds(rows) = {req[r].id}
             /\ out.concept = rows[1].Concept
             /\ OnePerChild(out.examples, rows, req[r].id)
        ELSE /\ Len(out) = Cardinality(RootIds(rows))
             /\ \A g \in RootIds(rows) :
                  /\ Cardinality({n \in 1..Len(out) : out[n].id = g}) = 1
                  /\ \A n \in 1..Len(out) :
                       out[n].id = g =>
                         /\ OnePerChild(out[n].examples, rows, g)
                         /\ \A e \in ChildIds(rows, g) :
                              Cardinality({m \in 1..Len(out[n].examples) :
                                             out[n].examples[m].id = e}) = 1

\* a single-root read of three rows, two children of which the first has two
\* grandchildren and the second none, gave two examples with 2 and 0 vocab
C7_Witness ==
  \E r \in Readers :
    /\ req[r].mode = "one"
    /\ Len(recordset[r]) = 3
    /\ recordset[r][1].ExampleId = recordset[r][2].ExampleId
    /\ Answered(r) # {}
    /\ \A k \in Answered(r) :
         /\ Len(resp[r][k].body.examples) = 2
         /\ Len(resp[r][k].body.examples[1].vocab) = 2
         /\ Len(resp[r][k].body.examples[2].vocab) = 0

\* children in order of first appearance, and under each its leaves
ChildrenInRowOrder(examples, rows, g) ==
  /\ \A e1, e2 \in ChildIds(rows, g) :
       FirstChild(rows, e1) < FirstChild(rows, e2) =>
         \A a \in ChildNodes(examples, rows, e1), b \in ChildNodes(examples, rows, e2) :
           a < b
  /\ \A e \in ChildIds(rows, g) : \A n \in ChildNodes(examples, rows, e) :
       \A v1, v2 \in LeafIds(rows, e) :
         FirstLeaf(rows, v1) < FirstLeaf(rows, v2) =>
           \A a \in LeafNodes(examples[n].vocab, rows, v1),
              b \in LeafNodes(examples[n].vocab, rows, v2) : a < b

\* index of the first row of a question, and of an option
FirstQuestion(rows, q) ==
  CHOOSE k \in 1..Len(rows) :
    rows[k].question_id = q /\ \A n \in 1..(k - 1) : rows[n].question_id # q
FirstOption(rows, o) ==
  CHOOSE k \in 1..Len(rows) :
    rows[k].option_id = o /\ \A n \in 1..(k - 1) : rows[n].option_id # o

\* C8: the roots of GET /api/grammar and the questions of GET /api/exam/today
\* come out in the order in which their identifier first appears in the rows
\* of the SELECT, and the children of each parent (examples, their vocab, a
\* question's options) in the order of their first appearance.
C8_FirstSeenOrder ==
  /\ \A r \in Readers : \A k \in Answered(r) :
       LET rows == recordset[r]
           out == resp[r][k].body
       IN  IF req[r].mode = "one"
           THEN ChildrenInRowOrder(out.examples, rows, req[r].id)
           ELSE /\ \A a, b \in 1..Len(out) :
                     a < b => FirstRoot(rows, out[a].id) < FirstRoot(rows, out[b].id)
                /\ \A n \in 1..Len(out) :
                     ChildrenInRowOrder(out[n].examples, rows, out[n].id)
  /\ \A x \in ExamReaders : \A k \in Answered(x) :
       LET rows == recordset[x]
           out == resp[x][k].questions
       IN  /\ \A a, b \in 1..Len(out) :
                a < b => FirstQuestion(rows, out[a].question_id)
                           < FirstQuestion(rows, out[b].question_id)
           /\ \A n \in 1..Len(out) : \A a, b \in 1..Len(out[n].options) :
                a < b => FirstOption(rows, out[n].options[a].option_id)
                           < FirstOption(rows, out[n].options[b].option_id)

\* GET /api/grammar answered two roots, the first with two examples
C8_Witness ==
  \E r \in Readers :
    /\ req[r].mode = "all"
    /\ Answered(r) # {}
    /\ \A k \in Answered(r) :
         /\ Len(resp[r][k].body) = 2
         /\ Len(resp[r][k].body[1].examples) = 2
         /\ resp[r][k].body[1].id < resp[r][k].body[2].id

\* C9: a single-root read whose SELECT ran answers not-found exactly when the
\* row set is empty and otherwise 200 with the node of that root; the
\* multi-root read answers 200 with the empty sequence when no rows match and
\* otherwise 200 with a node for every root of the row set.
C9_NotFoundOrNode ==
  \A r \in Readers :
    req[r] # NoReq /\ pc[r] \in {"finally", "done"} /\ err[r] = "" =>
      /\ Len(resp[r]) = 1
      /\ LET rows == recordset[r]
             out == resp[r][1]
         IN  IF req[r].mode = "one"
             THEN /\ out.status = 404 <=> Len(rows) = 0
                  /\ Len(rows) # 0 =>
                       /\ out.status = 200
                       /\ rows[1].GrammarId = req[r].id
                       /\ out.body.concept = rows[1].Concept
                       /\ out.body.meaning = rows[1].Meaning
                       /\ out.body.details = rows[1].Details
             ELSE /\ out.status = 200
                  /\ Len(rows) = 0 => out.body = <<>>
                  /\ {out.body[n].id : n \in 1..Len(out.body)} = RootIds(rows)

\* the multi-root read of a store without grammar points answered 200 and []
C9_Witness ==
  \E r \in Readers :
    /\ req[r].mode = "all"
    /\ pc[r] = "done" /\ err[r] = ""
    /\ db.GrammarPoints = {}
    /\ resp[r] = <<[status |-> 200, body |-> <<>>]>>

(* ---------- property of the Response Sanitizer ---------- *)
\* C10: on every route the sanitized text is the inner content of the first
\* fenced block tagged json when there is one, else the inner content of the
\* first fenced block when there is one, else the whole text, and in each of
\* the three cases it is trimmed of surrounding whitespace.
C10_ThreeStageTrimmed ==
  \A route \in Routes :
    sanitized[route] # <<"pending">> =>
      sanitized[route] =
        Trim(IF Match(geminiText, TRUE).found THEN Match(geminiText, TRUE).group
             ELSE IF Match(geminiText, FALSE).found THEN Match(geminiText, FALSE).group
             ELSE geminiText)

(* ---------- properties of the question path and of decoding ---------- *)
QuestionTables == {"QuestionBatch", "questions", "question_options"}
\* rows of table t written by request r, and those of them a reader can see
WrittenBy(r, t) == {row \in db[t] : row.xid = r}
VisibleOf(r, t) == {row \in WrittenBy(r, t) : Visible(row)}

\* C11: when the generator text has no fenced block and is no valid JSON, the
\* decode step fails with the parse error, the request ends with exactly one
\* failure response carrying that error, and no row it wrote is committed.
C11_MalformedHandled ==
  \A q \in QuestionWriters :
    /\ pc[q] = "done"
    /\ batchId[q] # Undefined
    /\ geminiText # <<>>
    /\ ~JsonMatch(geminiText).found
    /\ ~ValidJson(geminiText)
    => /\ err[q] = "Unexpected token in JSON"
       /\ resp[q] = <<[status |-> 500, error |-> err[q]]>>
       /\ \A t \in QuestionTables : VisibleOf(q, t) = {}

\* the GrammarDocument schema: every text present, examples and each vocab a
\* sequence
SchemaValid(doc) ==
  /\ doc.concept # NullText /\ doc.meaning # NullText /\ doc.details # NullText
  /\ doc.examples # NotIterable
  /\ \A n \in 1..Len(doc.examples) :
       LET example == doc.examples[n]
       IN  /\ example.japanese # NullText /\ example.romaji # NullText
           /\ example.english # NullText
           /\ example.vocab # NotIterable
           /\ \A m \in 1..Len(example.vocab) :
                /\ example.vocab[m].word # NullText
                /\ example.vocab[m].romaji # NullText
                /\ example.vocab[m].meaning # NullText

\* C12: a document that lacks a required field or has one of the wrong shape
\* is rejected before any insert is issued: no row of its request is ever in
\* the store, committed or not.
C12_RejectedBeforeInsert ==
  \A w \in LooseWriters :
    ~SchemaValid(geminiData[w]) => \A t \in Tables : WrittenBy(w, t) = {}

\* the call of q ended with its success response
Generated(q) == \E k \in 1..Len(resp[q]) : resp[q][k].status = 200
\* the options stored for a question row
OptionsOf(question) ==
  {o \in db.question_options : o.question_id = question.question_id}

\* C13: every committed Question has exactly one Option with is_correct = true
\* and at least one Option whose text equals the Question's answer.
C13_ExactlyOneCorrect ==
  \A question \in db.questions :
    Visible(question) =>
      /\ Cardinality({o \in OptionsOf(question) : o.is_correct}) = 1
      /\ \E o \in OptionsOf(question) : o.option_text = question.answer

\* C14: every committed QuestionBatch of the question path owns exactly 9
\* Question rows, and a generator output that is no list of exactly 9 question
\* objects commits nothing.
C14_NineQuestions ==
  \A q \in QuestionWriters :
    /\ \A b \in VisibleOf(q, "QuestionBatch") :
         Cardinality({x \in db.questions : x.batch_id = b.batch_id}) = ExpectedCount
    /\ questions[q] = NotIterable \/ Len(questions[q]) # ExpectedCount
         => \A t \in QuestionTables : VisibleOf(q, t) = {}

\* C15: when a question-generation call fails at the generator call, at the
\* decoding of its text or at an insert, no row it wrote is visible at any
\* time, and once its handler has ended the store holds none of its rows.
C15_QuestionRollback ==
  \A q \in QuestionWriters :
    err[q] # "" =>
      /\ \A t \in QuestionTables : VisibleOf(q, t) = {}
      /\ pc[q] = "done" => \A t \in QuestionTables : WrittenBy(q, t) = {}

\* a call failed at an option insert, after its batch and question inserts
C15_Witness ==
  \E q \in QuestionWriters :
    /\ pc[q] = "done"
    /\ err[q] = "insert question_options failed"
    /\ identity.QuestionBatch = 1 /\ identity.questions = 1
    /\ db.QuestionBatch = {} /\ db.questions = {}

\* C16: against a store of at least 5 grammar points and 10 kanji, a
\* successful call has drawn 5 distinct grammar points and 10 distinct kanji,
\* and its committed QuestionBatch row stores these two lists, of length 5 and
\* 10, as the response echoes them.
C16_SamplesFiveAndTen ==
  \A q \in QuestionWriters :
    /\ Generated(q)
    /\ Cardinality(db.GrammarPoints) >= TopGrammar
    /\ Cardinality(db.KanjiInfo) >= TopKanji
    => /\ Len(grammarList[q]) = TopGrammar
       /\ Cardinality({g \in db.GrammarPoints :
                         \E k \in 1..Len(grammarList[q]) :
                           grammarList[q][k] = g.Concept}) = TopGrammar
       /\ Len(kanjiList[q]) = TopKanji
       /\ Cardinality({c \in db.KanjiInfo :
                         \E k \in 1..Len(kanjiList[q]) :
                           kanjiList[q][k] = c.Kanji}) = TopKanji
       /\ \A k \in 1..Len(resp[q]) :
            /\ resp[q][k].grammar_used = grammarList[q]
            /\ resp[q][k].kanji_used = kanjiList[q]
            /\ \E b \in VisibleOf(q, "QuestionBatch") :
                 /\ b.batch_id = resp[q][k].batch_id
                 /\ JsonParse(b.grammar_list) = resp[q][k].grammar_used
                 /\ JsonParse(b.kanji_list) = resp[q][k].kanji_used
                 /\ Len(JsonParse(b.grammar_list)) = TopGrammar
                 /\ Len(JsonParse(b.kanji_list)) = TopKanji

\* a call against a store of more rows than it draws succeeded
C16_Witness ==
  \E q \in QuestionWriters :
    /\ Generated(q)
    /\ Cardinality(db.GrammarPoints) > TopGrammar
    /\ Cardinality(db.KanjiInfo) > TopKanji
    /\ Len(grammarList[q]) = TopGrammar
    /\ Len(kanjiList[q]) = TopKanji

\* the question row an option row belongs to
QuestionOf(o) == CHOOSE x \in db.questions : x.question_id = o.question_id
\* the question of the generated set that request q made a question row from:
\* question ids are handed out in the order of the set
SourceOf(q, x) ==
  questions[q][Cardinality({y \in WrittenBy(q, "questions") :
                              y.question_id <= x.question_id})]

\* C19: for every Option row the question path has inserted, is_correct is
\* true exactly when the option's text equals the answer of its question,
\* whatever option the generator itself marked as correct.
C19_IsCorrectComputed ==
  \A q \in QuestionWriters : \A o \in WrittenBy(q, "question_options") :
    /\ \E x \in WrittenBy(q, "questions") : x.question_id = o.question_id
    /\ o.is_correct <=> o.option_text = QuestionOf(o).answer
    /\ QuestionOf(o).answer = SourceOf(q, QuestionOf(o)).answer

\* committed options A and B of a question whose answer is B and whose
\* generator-marked option is A: A is stored as not correct, B as correct
C19_Witness ==
  \E q \in QuestionWriters :
    /\ Generated(q)
    /\ Len(questions[q]) = 1
    /\ questions[q][1].options = <<"A", "B">>
    /\ questions[q][1].answer = "B"
    /\ questions[q][1].correct_option = "A"
    /\ {<<o.option_text, o.is_correct>> : o \in VisibleOf(q, "question_options")}
         = {<<"A", FALSE>>, <<"B", TRUE>>}

\* the example rows request w has inserted, and the k-th of them in id order
ExamplesOf(w) == WrittenBy(w, "Examples")
NthExample(w, k) ==
  CHOOSE e \in ExamplesOf(w) :
    Cardinality({o \in ExamplesOf(w) : o.ExampleId < e.ExampleId}) = k - 1
\* the vocab rows of w under example row e, and the m-th of them in id order
VocabOf(w, e) == {v \in WrittenBy(w, "Vocabulary") : v.ExampleId = e.ExampleId}
NthVocab(w, e, m) ==
  CHOOSE v \in VocabOf(w, e) :
    Cardinality({o \in VocabOf(w, e) : o.VocabId < v.VocabId}) = m - 1

\* C17: at every point of a cascading write the rows it has inserted so far
\* are a top-down, document-order prefix of its document: the root row exists
\* and carries the returned root id before any example row, the k-th example
\* row is the k-th example of the document and carries the root's id, every
\* vocab row carries the id of an example row of the same write, the vocab
\* rows under the k-th example are the first entries of its vocab list in
\* order, all of them once a later example row exists, and they were inserted
\* before the vocab rows of any later example.
C17_TopDownDocumentOrder ==
  \A w \in Writers :
    LET doc == geminiData[w]
        ne == Cardinality(ExamplesOf(w))
    IN  /\ WrittenBy(w, "Examples") \cup WrittenBy(w, "Vocabulary") # {} =>
             /\ grammarId[w] # Undefined
             /\ {g.GrammarId : g \in WrittenBy(w, "GrammarPoints")} = {grammarId[w]}
        /\ ne <= Len(doc.examples)
        /\ \A v \in WrittenBy(w, "Vocabulary") :
             \E e \in ExamplesOf(w) : e.ExampleId = v.ExampleId
        /\ \A k \in 1..ne :
             LET e == NthExample(w, k)
                 nv == Cardinality(VocabOf(w, e))
             IN  /\ e.GrammarId = grammarId[w]
                 /\ e.Japanese = doc.examples[k].japanese
                 /\ nv <= Len(doc.examples[k].vocab)
                 /\ k < ne => nv = Len(doc.examples[k].vocab)
                 /\ \A m \in 1..nv :
                      NthVocab(w, e, m).Word = doc.examples[k].vocab[m].word
                 /\ \A l \in (k + 1)..ne :
                      \A a \in VocabOf(w, e), b \in VocabOf(w, NthExample(w, l)) :
                        a.VocabId < b.VocabId
        /\ pc[w] = "insertExample" /\ tx[w] = "begun" =>
             /\ ne = i[w] - 1
             /\ Cardinality(WrittenBy(w, "GrammarPoints")) = 1
        /\ pc[w] = "insertVocab" /\ tx[w] = "begun" =>
             /\ ne = i[w]
             /\ exampleId[w] = NthExample(w, ne).ExampleId
             /\ Cardinality(VocabOf(w, NthExample(w, ne))) = j[w] - 1
        /\ tx[w] = "committed" =>
             /\ ne = Len(doc.examples)
             /\ \A k \in 1..ne :
                  Cardinality(VocabOf(w, NthExample(w, k))) = Len(doc.examples[k].vocab)

\* the write is about to insert the first vocab entry of its second example:
\* the root, both example rows and the two vocab rows of the first example
\* are there, none of them committed
C17_Witness ==
  /\ pc["w1"] = "insertVocab"
  /\ tx["w1"] = "begun"
  /\ i["w1"] = 2
  /\ j["w1"] = 1
  /\ Cardinality(ExamplesOf("w1")) = 2
  /\ Cardinality(VocabOf("w1", NthExample("w1", 1))) = 2
  /\ VocabOf("w1", NthExample("w1", 2)) = {}

\* the step in which w's catch block calls tx.rollback(): tx is set
RollbackInvoked(w) ==
  /\ pc[w] = "catch"
  /\ pc'[w] = "finally"
  /\ tx[w] # "undefined"
\* the step in which w's finally block closes the pool
PoolClosed(w) == pc[w] = "finally" /\ pc'[w] = "done"

\* rollback is called only on a transaction whose begin succeeded
C18_NoRollbackUnbegun ==
  [][\A w \in Writers \cup QuestionWriters :
       RollbackInvoked(w) => tx[w] # "created"]_vars
\* rollback is never called on a transaction that has committed
C18_NoRollbackCommitted ==
  [][\A w \in Writers \cup QuestionWriters :
       RollbackInvoked(w) => tx[w] # "committed"]_vars
\* no transaction is still open when its request closes the pool, and a
\* transaction that ended stays ended
C18_EndedBeforeClose ==
  [][\A w \in Writers \cup QuestionWriters :
       /\ PoolClosed(w) => tx[w] # "begun"
       /\ tx[w] \in {"committed", "rolledback"} => tx'[w] = tx[w]]_vars

\* C18: a write request's transaction, once begun, is ended exactly once, by
\* commit or by rollback, before the request closes the pool; rollback is
\* never called on a transaction whose begin did not succeed, nor on one that
\* has committed.
C18_EndedExactlyOnce ==
  [][\A w \in Writers \cup QuestionWriters :
       /\ RollbackInvoked(w) => tx[w] \notin {"created", "committed"}
       /\ PoolClosed(w) => tx[w] # "begun"
       /\ tx[w] \in {"committed", "rolledback"} => tx'[w] = tx[w]]_vars

\* the rows (g=1,e=10,v=100), (g=1,e=10,v=101), (g=1,e=11,v=NULL) as the join
\* returns them
ScenarioRows ==
  LET g == GrammarRow(1, Txt("g", "concept", 1, 0), Txt("g", "meaning", 1, 0),
                      Txt("g", "details", 1, 0), "init", TRUE)
      e(id) == ExampleRow(id, 1, Txt("e", "japanese", id, 0), Txt("e", "romaji", id, 0),
                          Txt("e", "english", id, 0), "init", TRUE)
      v(id) == VocabRow(id, 10, Txt("v", "word", id, 0), Txt("v", "vromaji", id, 0),
                        Txt("v", "vmeaning", id, 0), "init", TRUE)
  IN  <<JoinedRow(g, e(10), v(100)), JoinedRow(g, e(10), v(101)),
        JoinedRow(g, e(11), NullVocab)>>

\* the nodes of a sequence of example nodes have 2 and 0 vocab entries
TwoAndNone(examples) ==
  /\ Len(examples) = 2
  /\ Len(examples[1].vocab) = 2
  /\ "vocab" \in DOMAIN examples[2]
  /\ examples[2].vocab = <<>>

\* the example nodes an answer holds for root g
ExamplesUnder(rq, out, g) ==
  IF rq.mode = "one" THEN {out.examples}
  ELSE {out[n].examples : n \in {m \in 1..Len(out) : out[m].id = g}}

\* C20: in the answer of a grammar read, a root all of whose rows have a NULL
\* ExampleId is a node whose examples field is the empty sequence, and an
\* example all of whose rows have a NULL VocabId is a node whose vocab field
\* is present and is the empty sequence; the rows (1,10,100), (1,10,101),
\* (1,11,NULL) give root 1 with exactly two examples of 2 and 0 vocab entries.
C20_EmptySequences ==
  /\ \A r \in Readers : \A k \in Answered(r) :
       LET rows == recordset[r]
           out == resp[r][k].body
       IN  \A g \in RootIds(rows) :
             /\ ExamplesUnder(req[r], out, g) # {}
             /\ \A examples \in ExamplesUnder(req[r], out, g) :
                  /\ ChildIds(rows, g) = {} => examples = <<>>
                  /\ \A e \in ChildIds(rows, g) :
                       /\ ChildNodes(examples, rows, e) # {}
                       /\ \A n \in ChildNodes(examples, rows, e) :
                            /\ "vocab" \in DOMAIN examples[n]
                            /\ LeafIds(rows, e) = {} => examples[n].vocab = <<>>
  /\ TwoAndNone(ReconstructOne(ScenarioRows).examples)
  /\ LET all == ReconstructAll(ScenarioRows)
     IN  Len(all) = 1 /\ all[1].id = 1 /\ TwoAndNone(all[1].examples)

\* GET /api/grammar answered two roots: the first has two examples with 2
\* and 0 vocab entries, the second, which has no example rows, none
C20_Witness ==
  \E r \in Readers :
    /\ req[r].mode = "all"
    /\ Len(recordset[r]) = 4
    /\ recordset[r][4].ExampleId = NULL
    /\ Answered(r) # {}
    /\ \A k \in Answered(r) :
         /\ Len(resp[r][k].body) = 2
         /\ TwoAndNone(resp[r][k].body[1].examples)
         /\ resp[r][k].body[2].examples = <<>>

\* the committed Question rows of a batch, and the committed Option rows of a
\* question
QuestionsOfBatch(b) == {q \in db.questions : Visible(q) /\ q.batch_id = b}
OptionsOfQuestion(id) == {o \in db.question_options : Visible(o) /\ o.question_id = id}

\* the positions of the entries of an answer made for question id
EntriesOf(out, id) ==
  {n \in 1..Len(out.questions) : out.questions[n].question_id = id}

\* the answer holds exactly one entry for question q, with all and only the
\* Option rows of q
OneEntryWithItsOptions(out, q) ==
  /\ Cardinality(EntriesOf(out, q.question_id)) = 1
  /\ \A n \in EntriesOf(out, q.question_id) :
       LET options == out.questions[n].options
       IN  /\ Len(options) = Cardinality(OptionsOfQuestion(q.question_id))
           /\ {options[m].option_id : m \in 1..Len(options)}
                = {o.option_id : o \in OptionsOfQuestion(q.question_id)}

\* the part of C21 about the questions that have at least one Option row
C21_QuestionsWithOptions ==
  \A x \in ExamReaders : \A k \in Answered(x) :
    LET out == resp[x][k]
    IN  /\ SelectTodayBatch(db) # <<>>
        /\ out.batch_id = SelectTodayBatch(db)[1].batch_id
        /\ \A n \in 1..Len(out.questions) :
             \E q \in QuestionsOfBatch(out.batch_id) :
               q.question_id = out.questions[n].question_id
        /\ \A q \in QuestionsOfBatch(out.batch_id) :
             OptionsOfQuestion(q.question_id) # {} => OneEntryWithItsOptions(out, q)

\* C21: the answer of GET /api/exam/today is for the latest batch created
\* today and holds exactly one entry per Question row of that batch, a
\* question without Option rows included (with an empty options sequence),
\* each entry with all and only the Option rows of its question.
C21_EntryPerQuestion ==
  \A x \in ExamReaders : \A k \in Answered(x) :
    LET out == resp[x][k]
    IN  /\ SelectTodayBatch(db) # <<>>
        /\ out.batch_id = SelectTodayBatch(db)[1].batch_id
        /\ Len(out.questions) = Cardinality(QuestionsOfBatch(out.batch_id))
        /\ \A q \in QuestionsOfBatch(out.batch_id) : OneEntryWithItsOptions(out, q)

====
